---------------------------- MODULE Spec2Model ----------------------------
(***************************************************************************)
(* A model of taWeather: the reconciliation of a night's weather codes      *)
(* with the data parts of a run (main.py, utils.py, clouds.py,              *)
(* data_part.py).                                                           *)
(*                                                                          *)
(* Python values are represented as follows.                                *)
(*   list            a sequence                                             *)
(*   dict            a sequence of <<key, value>> pairs in insertion order  *)
(*   None / a value  <<>> / <<v>>                                           *)
(*   str             a sequence of one-character strings                    *)
(*   datetime        seconds since 1900-01-01 00:00:00 (strptime's date)    *)
(*   Clouds          a sequence of its seven fields                         *)
(* An exception that nothing catches ends the run: err names it and pc      *)
(* becomes "aborted".                                                       *)
(***************************************************************************)
EXTENDS Integers, Sequences, FiniteSets, TLC

VARIABLES
    pc, err,
    \* utils.filter_corrections applied once, then to its own result
    weather_times, time_window, filtered_once, filtered_twice,
    \* main.insert_remote_timestamps
    local, remote, max_diff, new_local, new_remote, changes_made,
    promotions, passes,
    \* main.grep_run_log
    log, pos, n_parts, start_time_list, stop_time_list, missing_clock_stops,
    emergency_stop_list, other_alarms, auto_stop_time, weat_code_dict,
    grep_result,
    \* extract_weather_data (main.py, and the variant in utils.py)
    weather_dict, run_start, run_end,
    local_weat, remote_weat, preliminary_weat, postrun_weat, utils_weat,
    \* main.__main__
    detector, n_data_parts, start_secs, stop_secs,
    local_timestamps_filtered, remote_timestamps_filtered,
    local_weat_filtered, preliminary_code, preliminary_time,
    data_parts, part, written

commonVars == <<pc, err>>
filterVars == <<weather_times, time_window, filtered_once, filtered_twice>>
mergeVars == <<local, remote, max_diff, new_local, new_remote, changes_made,
               promotions, passes>>
grepVars == <<log, pos, n_parts, start_time_list, stop_time_list,
              missing_clock_stops, emergency_stop_list, other_alarms,
              auto_stop_time, weat_code_dict, grep_result>>
classifyVars == <<weather_dict, run_start, run_end, local_weat, remote_weat,
                  preliminary_weat, postrun_weat, utils_weat>>
mainVars == <<detector, n_data_parts, start_secs, stop_secs,
              local_timestamps_filtered, remote_timestamps_filtered,
              local_weat_filtered, preliminary_code, preliminary_time,
              data_parts, part, written>>
vars == <<commonVars, filterVars, mergeVars, grepVars, classifyVars, mainVars>>

-----------------------------------------------------------------------------
(* Python helpers *)

None == <<>>

Some(v) == <<v>>

Abs(x) == IF x < 0 THEN -x ELSE x

Range(s) == {s[k] : k \in 1..Len(s)}

\* sequences over S of length at most n
SeqsUpTo(S, n) == UNION {[1..k -> S] : k \in 0..n}

IsAscending(s) == \A k \in 1..(Len(s) - 1) : s[k] <= s[k + 1]

IsStrictlyAscending(s) == \A k \in 1..(Len(s) - 1) : s[k] < s[k + 1]

\* sorted(): insertion sort of a list of integers
RECURSIVE SortedInsert(_, _)
SortedInsert(s, x) ==
    IF s = <<>> THEN <<x>>
    ELSE IF x < Head(s) THEN <<x>> \o s
    ELSE <<Head(s)>> \o SortedInsert(Tail(s), x)

RECURSIVE Sorted(_)
Sorted(s) == IF s = <<>> THEN <<>> ELSE SortedInsert(Sorted(Tail(s)), Head(s))

\* list.pop(): the list without its last element, whatever x is
ListRemove_last(s, x) ==
    IF s = <<>> THEN <<>> ELSE SubSeq(s, 1, Len(s) - 1)

\* list.remove(x): the list without the first occurrence of x
RECURSIVE ListRemove(_, _)
ListRemove(s, x) ==
    IF s = <<>> THEN <<>>
    ELSE IF Head(s) = x THEN Tail(s)
    ELSE <<Head(s)>> \o ListRemove(Tail(s), x)

\* list.insert(m, x): x is placed before index m (0-based), at the end when
\* m is past the end
ListInsert(s, m, x) ==
    IF m >= Len(s) THEN Append(s, x)
    ELSE SubSeq(s, 1, m) \o <<x>> \o SubSeq(s, m + 1, Len(s))

\* a dict as a sequence of <<key, value>> pairs in insertion order
DictKeys(d) == [k \in 1..Len(d) |-> d[k][1]]

DictValues(d) == [k \in 1..Len(d) |-> d[k][2]]

DictHas(d, key) == \E k \in 1..Len(d) : d[k][1] = key

DictGet(d, key) == d[CHOOSE k \in 1..Len(d) : d[k][1] = key][2]

\* d[key] = value: an existing key keeps its place
DictSet(d, key, value) ==
    IF DictHas(d, key)
    THEN [k \in 1..Len(d) |-> IF d[k][1] = key THEN <<key, value>> ELSE d[k]]
    ELSE Append(d, <<key, value>>)

-----------------------------------------------------------------------------
(* utils.filter_corrections *)

RECURSIVE filter_loop(_, _, _, _, _)
filter_loop(times, window, k, prev_time, filtered_times) ==
    IF k > Len(times) THEN filtered_times
    ELSE LET current_time == times[k]
             keep == prev_time = None \/ (current_time - prev_time[1]) >= window
         IN filter_loop(times, window, k + 1, Some(current_time),
                        IF keep THEN Append(filtered_times, current_time)
                        ELSE filtered_times)

\* filter_corrections with prev_time started at the first entry instead of None
filter_corrections_first_as_prev(times, window) ==
    filter_loop(times, window, 1,
                IF times = <<>> THEN None ELSE Some(times[1]), <<>>)

filter_corrections(times, window) == filter_loop(times, window, 1, None, <<>>)

-----------------------------------------------------------------------------
(* clouds.Clouds *)

Digits == <<"0", "1", "2", "3", "4", "5", "6", "7", "8", "9">>

IsDigit(c) == \E d \in 1..10 : Digits[d] = c

\* int(c) of a digit character
DigitVal(c) == (CHOOSE d \in 1..10 : Digits[d] = c) - 1

\* str(n) of a field value 0..9
DigitStr(n) == Digits[n + 1]

\* Clouds.from_string: cls(*map(int, weather_string))
from_string(weather_string) ==
    [k \in 1..Len(weather_string) |-> DigitVal(weather_string[k])]

\* Clouds.to_list
to_list(clouds, include_haze) ==
    IF include_haze THEN clouds ELSE SubSeq(clouds, 1, 6)

\* Clouds.to_string: "".join(map(str, self.to_list()))
to_string(clouds) ==
    [k \in 1..Len(to_list(clouds, TRUE)) |-> DigitStr(to_list(clouds, TRUE)[k])]

\* Decimal(num / den).to_integral_value(rounding=ROUND_HALF_UP), num and den
\* non-negative, den positive
RoundHalfUp(num, den) == (2 * num + den) \div (2 * den)

\* compare_clouds.time_weighted_average; with both weights zero the float
\* division gives NaN and int(Decimal('NaN')) raises ValueError
time_weighted_average(a, b, weight_first, weight_second) ==
    IF weight_first + weight_second = 0 THEN None
    ELSE Some(RoundHalfUp(a * weight_second + b * weight_first,
                          weight_first + weight_second))

\* compare_clouds.average
average(a, b) == RoundHalfUp(a + b, 2)

Algorithms == {"match", "worse", "average", "latest", "twavg"}

\* one field under a comparison strategy: None when it raises
comparison_function(algorithm, a, b, weight_first, weight_second) ==
    CASE algorithm = "match" -> Some(IF b = a THEN b ELSE 9)
      [] algorithm = "worse" -> Some(IF a >= b THEN a ELSE b)
      [] algorithm = "average" -> Some(average(a, b))
      [] algorithm = "latest" -> Some(b)
      [] algorithm = "twavg" -> time_weighted_average(a, b, weight_first, weight_second)

\* Clouds.compare_clouds: [err, clouds]
compare_clouds(first_clouds, second_clouds, weight_first, weight_second, algorithm) ==
    IF algorithm \notin Algorithms
    THEN [err |-> "NotImplementedError", clouds |-> None]
    ELSE LET f(k) == comparison_function(algorithm, first_clouds[k],
                                         second_clouds[k], weight_first,
                                         weight_second)
         IN IF \E k \in 1..7 : f(k) = None
            THEN [err |-> "ValueError", clouds |-> None]
            ELSE [err |-> "none", clouds |-> Some([k \in 1..7 |-> f(k)[1]])]

-----------------------------------------------------------------------------
(* extract_weather_data *)

MIN_SEC == 61200

MAX_SEC == 86400

\* the positions where a run of seven digits starts
DigitRunStarts(code) ==
    {k \in 1..(Len(code) - 6) : \A j \in k..(k + 6) : IsDigit(code[j])}

Min(S) == CHOOSE x \in S : \A y \in S : x <= y

Max(S) == CHOOSE x \in S : \A y \in S : x >= y

\* re.findall(r'\d{7}', code): None when the list is empty, else its first
\* element
local_match(code) ==
    IF DigitRunStarts(code) = {} THEN None
    ELSE Some(SubSeq(code, Min(DigitRunStarts(code)), Min(DigitRunStarts(code)) + 6))

\* the positions j of a "]" that r'\[(.*?)]\s*(\d{7})' can match at: code
\* starts with "[", and after j come spaces and then seven digits
RemoteCloses(code) ==
    {j \in 2..Len(code) :
        /\ code[1] = "["
        /\ code[j] = "]"
        /\ \E k \in DigitRunStarts(code) :
              /\ k > j
              /\ \A h \in (j + 1)..(k - 1) : code[h] = " "}

\* re.match(r'\[(.*?)]\s*(\d{7})', code, re.I): None, or group(2)
remote_match(code) ==
    IF RemoteCloses(code) = {} THEN None
    ELSE LET j == Min(RemoteCloses(code))
             k == Min({h \in DigitRunStarts(code) : h > j})
         IN Some(SubSeq(code, k, k + 6))

\* str.isnumeric
isnumeric(code) == Len(code) > 0 /\ \A k \in 1..Len(code) : IsDigit(code[k])

\* the midnight-UTC shift of extract_weather_data (main.py)
shift_timestamp(timestamp) ==
    IF MIN_SEC < timestamp /\ timestamp < MAX_SEC
    THEN timestamp - 43200 * 2
    ELSE timestamp

NoWeather == [err |-> "none", local_weat |-> <<>>, remote_weat |-> <<>>,
              preliminary_weat |-> <<>>, postrun_weat |-> <<>>]

\* one iteration of the loop of extract_weather_data (main.py) over an item
classify_entry(acc, item, rstart, rend) ==
    LET code == item[2]
        timestamp == shift_timestamp(item[1])
    IN IF timestamp < rstart
       THEN IF local_match(code) = None
            THEN [acc EXCEPT !.err = "IndexError"]
            ELSE [acc EXCEPT !.preliminary_weat =
                     DictSet(@, timestamp, from_string(local_match(code)[1]))]
       ELSE IF timestamp > rend
       THEN IF local_match(code) = None
            THEN [acc EXCEPT !.err = "IndexError"]
            ELSE [acc EXCEPT !.postrun_weat =
                     DictSet(@, timestamp, from_string(local_match(code)[1]))]
       ELSE IF remote_match(code) # None
       THEN [acc EXCEPT !.remote_weat =
                DictSet(@, timestamp, from_string(remote_match(code)[1]))]
       ELSE IF local_match(code) # None
       THEN [acc EXCEPT !.local_weat =
                DictSet(@, timestamp, from_string(local_match(code)[1]))]
       ELSE acc

RECURSIVE classify_loop(_, _, _, _, _)
classify_loop(d, k, rstart, rend, acc) ==
    IF k > Len(d) \/ acc.err # "none" THEN acc
    ELSE classify_loop(d, k + 1, rstart, rend,
                       classify_entry(acc, d[k], rstart, rend))

\* main.extract_weather_data
extract_weather_data(d, rstart, rend) == classify_loop(d, 1, rstart, rend, NoWeather)

\* one iteration of the loop of the variant in utils.py; the four names are
\* bound to one dict, here acc.weat
utils_classify_entry(acc, item, rstart, rend) ==
    LET code == item[2]
        timestamp == item[1]
        match == local_match(code)
    IN IF timestamp < rstart \/ timestamp > rend
       THEN IF match # None
            THEN [acc EXCEPT !.weat = DictSet(@, timestamp, from_string(match[1]))]
            ELSE acc
       ELSE IF isnumeric(code)
       THEN IF Len(code) # 7
            THEN [acc EXCEPT !.err = "TypeError"]
            ELSE [acc EXCEPT !.weat = DictSet(@, timestamp, from_string(code))]
       ELSE IF match # None
       THEN [acc EXCEPT !.weat = DictSet(@, timestamp, from_string(match[1]))]
       ELSE acc

RECURSIVE utils_classify_loop(_, _, _, _, _)
utils_classify_loop(d, k, rstart, rend, acc) ==
    IF k > Len(d) \/ acc.err # "none" THEN acc
    ELSE utils_classify_loop(d, k + 1, rstart, rend,
                             utils_classify_entry(acc, d[k], rstart, rend))

\* utils.extract_weather_data: local_weat = remote_weat = preliminary_weat =
\* postrun_weat = {} makes the four returned maps one object
utils_extract_weather_data(d, rstart, rend) ==
    LET r == utils_classify_loop(d, 1, rstart, rend, [err |-> "none", weat |-> <<>>])
    IN [err |-> r.err, local_weat |-> r.weat, remote_weat |-> r.weat,
        preliminary_weat |-> r.weat, postrun_weat |-> r.weat]

-----------------------------------------------------------------------------
(* main.insert_remote_timestamps *)

\* candidates with the bounds included: start <= r <= end
candidates_inclusive(rem, start, end) ==
    SelectSeq(rem, LAMBDA r : start <= r /\ r <= end)

\* candidates = [r for r in remote if start < r < end]
candidates(rem, start, end) ==
    SelectSeq(rem, LAMBDA r : start < r /\ r < end)

\* min(candidates, key=lambda x: abs(x - midpoint)), midpoint = (start + end) / 2:
\* the first of the candidates at the least distance
closest_candidate(cands, start, end) ==
    LET key(x) == Abs(2 * x - (start + end))
        first == CHOOSE k \in 1..Len(cands) :
                    /\ \A j \in 1..Len(cands) : key(cands[k]) <= key(cands[j])
                    /\ \A j \in 1..(k - 1) : key(cands[j]) > key(cands[k])
    IN cands[first]

\* the body of "for i in range(len(new_local) - 1)", i counted from 1 here
merge_step(st, rem, gap, i) ==
    LET start == st.new_local[i]
        end == st.new_local[i + 1]
        cands == candidates(rem, start, end)
        c == closest_candidate(cands, start, end)
    IN IF end - start > gap /\ cands # <<>>
       THEN [st EXCEPT !.new_local = Append(@, c),
                       !.promoted = Append(@, c),
                       !.new_remote = ListRemove(@, c),
                       !.err = IF c \in Range(st.new_remote) THEN "none"
                               ELSE "ValueError",
                       !.changes_made = TRUE]
       ELSE st

RECURSIVE merge_for(_, _, _, _, _)
merge_for(st, rem, gap, i, n) ==
    IF i > n \/ st.err # "none" THEN st
    ELSE merge_for(merge_step(st, rem, gap, i), rem, gap, i + 1, n)

\* one pass of "while changes_made": the for loop, then the two sorts
merge_pass(nl, nr, rem, gap) ==
    LET st == merge_for([new_local |-> nl, new_remote |-> nr, promoted |-> <<>>,
                         changes_made |-> FALSE, err |-> "none"],
                        rem, gap, 1, Len(nl) - 1)
    IN IF st.err # "none" THEN st
       ELSE [st EXCEPT !.new_local = Sorted(@), !.new_remote = Sorted(@)]

\* "while changes_made" holds: one pass
MergePass ==
    /\ pc = "merge"
    /\ changes_made
    /\ LET st == merge_pass(new_local, new_remote, remote, max_diff)
       IN /\ new_local' = st.new_local
          /\ new_remote' = st.new_remote
          /\ changes_made' = st.changes_made
          /\ promotions' = promotions \o st.promoted
          /\ passes' = passes + 1
          /\ err' = st.err
          /\ pc' = IF st.err = "none" THEN "merge" ELSE "aborted"
    /\ UNCHANGED <<local, remote, max_diff>>
    /\ UNCHANGED <<filterVars, grepVars, classifyVars, mainVars>>

\* "while changes_made" fails: return new_local, new_remote
MergeReturn ==
    /\ pc = "merge"
    /\ ~changes_made
    /\ pc' = "merge_done"
    /\ UNCHANGED <<err, filterVars, mergeVars, grepVars, classifyVars, mainVars>>

-----------------------------------------------------------------------------
(* main.grep_run_log *)

\* the log's events, in file order. An event is [kind, time] with
\*   "parts"         <dataNOCUTS parts=n>               (field n)
\*   "clock"         <dataNOCUTS time><clock stop/>     (field stop: None or a time)
\*   "empty"         <dataNOCUTS> without <clock>
\*   "emergency"     <alarm>Emergency Stop!</alarm>
\*   "sky"           <alarm>Sky thread exception!...</alarm>
\*   "alarm"         any other <alarm>
\*   "auto_restart"  <auto-restart><auto-stop time/></auto-restart>
\*   "auto_stop"     <auto-stop time/>
\*   "weather"       <weather time>raw</weather>        (field raw)

\* utils.parse_time_string of "%H:%M:%S": a datetime of 1900-01-01
parse_time_string(tod) == tod % 86400

\* utils.convert_to_seconds of one datetime: hour, minute and second only
convert_to_seconds(dt) == dt % 86400

convert_list_to_seconds(dts) == [k \in 1..Len(dts) |-> convert_to_seconds(dts[k])]

\* timedelta(minutes=20)
TwentyMinutes == 1200

\* utils.nearest(items, pivot): the item at the least absolute distance from
\* pivot, None when items is empty (min() of an empty list raises ValueError)
nearest(items, pivot) ==
    IF items = <<>> THEN None
    ELSE LET first == CHOOSE k \in 1..Len(items) :
                 /\ \A j \in 1..Len(items) :
                       Abs(items[k] - pivot) <= Abs(items[j] - pivot)
                 /\ \A j \in 1..(k - 1) :
                       Abs(items[j] - pivot) > Abs(items[k] - pivot)
         IN Some(items[first])

\* main.handle_data_nocuts, and the other branches of the loop over root.iter()
handle_event(st, ev) ==
    CASE ev.kind = "parts" -> [st EXCEPT !.n_parts = ev.n]
      [] ev.kind = "clock" ->
            IF ev.stop # None
            THEN [st EXCEPT !.start_time_list = Append(@, parse_time_string(ev.time)),
                            !.stop_time_list = Append(@, parse_time_string(ev.stop[1]))]
            ELSE [st EXCEPT !.start_time_list = Append(@, parse_time_string(ev.time)),
                            !.missing_clock_stops =
                                Append(@, Len(st.stop_time_list)
                                          + Len(st.missing_clock_stops))]
      [] ev.kind = "empty" -> [st EXCEPT !.n_parts = @ - 1]
      [] ev.kind = "emergency" ->
            [st EXCEPT !.emergency_stop_list = Append(@, parse_time_string(ev.time))]
      [] ev.kind = "sky" ->
            [st EXCEPT !.other_alarms = Append(@, parse_time_string(ev.time))]
      [] ev.kind = "auto_restart" ->
            \* root.iter() visits the nested <auto-stop> next
            [st EXCEPT !.other_alarms = Append(@, parse_time_string(ev.time)),
                       !.auto_stop_time = Some(parse_time_string(ev.time))]
      [] ev.kind = "auto_stop" ->
            [st EXCEPT !.auto_stop_time = Some(parse_time_string(ev.time))]
      [] ev.kind = "weather" ->
            [st EXCEPT !.weat_code_dict = DictSet(@, parse_time_string(ev.time), ev.raw)]
      [] OTHER -> st

\* main.get_stop_time
get_stop_time(index, starts, emergency, alarms) ==
    IF emergency # <<>> THEN nearest(emergency, starts[index + 1])[1]
    ELSE IF alarms # <<>> THEN nearest(alarms, starts[index + 1])[1]
    ELSE starts[index + 1] + TwentyMinutes

\* one iteration of the loop of insert_missing_stop_times: [err, stops]
insert_missing_stop(st, m, starts, auto_stop, emergency, alarms) ==
    IF m >= Len(st.stops)
    THEN IF auto_stop # None
         THEN [st EXCEPT !.stops = ListInsert(@, m, auto_stop[1])]
         ELSE IF nearest(emergency, starts[m + 1]) = None
         THEN [st EXCEPT !.err = "ValueError"]
         ELSE [st EXCEPT !.stops = ListInsert(@, m, nearest(emergency, starts[m + 1])[1])]
    ELSE [st EXCEPT !.stops =
             ListInsert(@, m, get_stop_time(m, starts, emergency, alarms))]

RECURSIVE insert_missing_loop(_, _, _, _, _, _, _)
insert_missing_loop(st, missing, k, starts, auto_stop, emergency, alarms) ==
    IF k > Len(missing) \/ st.err # "none" THEN st
    ELSE insert_missing_loop(
             insert_missing_stop(st, missing[k], starts, auto_stop, emergency, alarms),
             missing, k + 1, starts, auto_stop, emergency, alarms)

\* main.insert_missing_stop_times
insert_missing_stop_times(missing, stops, starts, auto_stop, emergency, alarms) ==
    insert_missing_loop([err |-> "none", stops |-> stops], missing, 1, starts,
                        auto_stop, emergency, alarms)

\* "for child in root.iter()": one element of the log
GrepEvent ==
    /\ pc = "grep_iter"
    /\ pos <= Len(log)
    /\ LET st == handle_event(
                    [n_parts |-> n_parts, start_time_list |-> start_time_list,
                     stop_time_list |-> stop_time_list,
                     missing_clock_stops |-> missing_clock_stops,
                     emergency_stop_list |-> emergency_stop_list,
                     other_alarms |-> other_alarms,
                     auto_stop_time |-> auto_stop_time,
                     weat_code_dict |-> weat_code_dict],
                    log[pos])
       IN /\ n_parts' = st.n_parts
          /\ start_time_list' = st.start_time_list
          /\ stop_time_list' = st.stop_time_list
          /\ missing_clock_stops' = st.missing_clock_stops
          /\ emergency_stop_list' = st.emergency_stop_list
          /\ other_alarms' = st.other_alarms
          /\ auto_stop_time' = st.auto_stop_time
          /\ weat_code_dict' = st.weat_code_dict
    /\ pos' = pos + 1
    /\ UNCHANGED <<pc, err, log, grep_result>>
    /\ UNCHANGED <<filterVars, mergeVars, classifyVars, mainVars>>

\* the log is read and no parts are left: raise SystemExit("No data parts found!")
GrepNoParts ==
    /\ pc = "grep_iter"
    /\ pos > Len(log)
    /\ n_parts = 0
    /\ pc' = "aborted"
    /\ err' = "SystemExit"
    /\ UNCHANGED <<filterVars, mergeVars, grepVars, classifyVars, mainVars>>

\* "if missing_clock_stops: insert_missing_stop_times(...)"
GrepInsertMissing ==
    /\ pc = "grep_iter"
    /\ pos > Len(log)
    /\ n_parts # 0
    /\ LET st == insert_missing_stop_times(missing_clock_stops, stop_time_list,
                                           start_time_list, auto_stop_time,
                                           emergency_stop_list, other_alarms)
       IN /\ stop_time_list' = st.stops
          /\ err' = st.err
          /\ pc' = IF st.err = "none" THEN "grep_finish" ELSE "aborted"
    /\ UNCHANGED <<log, pos, n_parts, start_time_list, missing_clock_stops,
                   emergency_stop_list, other_alarms, auto_stop_time,
                   weat_code_dict, grep_result>>
    /\ UNCHANGED <<filterVars, mergeVars, classifyVars, mainVars>>

\* lines 131-142: the run's end, the stop filter, the conversion to seconds
\* and the two sorts
grep_return(np, starts, stops, weat) ==
    IF stops = <<>> THEN [err |-> "IndexError"]
    ELSE LET run_end_time == Max(Range(stops))
             kept == SelectSeq(stops, LAMBDA t : Min(Range(starts)) < t
                                                 /\ t <= run_end_time)
         IN [err |-> "none",
             n_parts |-> np,
             start_secs |-> Sorted(convert_list_to_seconds(starts)),
             stop_secs |-> Sorted(convert_list_to_seconds(kept)),
             run_end_sec |-> convert_to_seconds(run_end_time),
             weat_code_secs |->
                 [k \in 1..Len(weat) |-> <<convert_to_seconds(weat[k][1]), weat[k][2]>>]]

GrepFinish ==
    /\ pc = "grep_finish"
    /\ LET r == grep_return(n_parts, start_time_list, stop_time_list, weat_code_dict)
       IN /\ grep_result' = r
          /\ err' = r.err
          /\ pc' = IF r.err = "none" THEN "grep_done" ELSE "aborted"
    /\ UNCHANGED <<log, pos, n_parts, start_time_list, stop_time_list,
                   missing_clock_stops, emergency_stop_list, other_alarms,
                   auto_stop_time, weat_code_dict>>
    /\ UNCHANGED <<filterVars, mergeVars, classifyVars, mainVars>>

-----------------------------------------------------------------------------
(* main.__main__, from the return of grep_run_log on *)

\* data_part.DataPart
DataPart(part_number, start_time, stop_time, mid_time, max_time, weat_code, weat_time, source) ==
    [part_number |-> part_number, start_time |-> start_time,
     stop_time |-> stop_time, mid_time |-> mid_time, max_time |-> max_time,
     weat_code |-> weat_code, weat_time |-> weat_time, source |-> source]

\* whether numpy can add the two arrays: equal lengths, or one of length 1
Broadcastable(starts, stops) ==
    Len(starts) = Len(stops) \/ Len(starts) = 1 \/ Len(stops) = 1

\* 2 * mid_secs, mid_secs = (np.asarray(start_secs) + np.asarray(stop_secs)) / 2
mid_secs_doubled(starts, stops) ==
    LET n == IF Len(starts) >= Len(stops) THEN Len(starts) ELSE Len(stops)
        at(s, k) == IF Len(s) = 1 THEN s[1] ELSE s[k]
    IN [k \in 1..n |-> at(starts, k) + at(stops, k)]

\* the number of tuples zip(start_secs, mid_secs, stop_secs, max_secs) yields
n_zip(starts, stops) == IF Len(starts) <= Len(stops) THEN Len(starts) ELSE Len(stops)

\* [local_weat[t] for t in timestamps]
weat_of(weat, timestamps) ==
    [k \in 1..Len(timestamps) |-> DictGet(weat, timestamps[k])]

\* lines 259-287: the preliminary and post-run codes join the local ones, and
\* corrections are filtered out
select_observations(w) ==
    LET has_pre == w.preliminary_weat # <<>>
        pre_code == w.preliminary_weat[Len(w.preliminary_weat)][2]
        pre_time == w.preliminary_weat[Len(w.preliminary_weat)][1]
        has_post == w.postrun_weat # <<>>
        post_code == w.postrun_weat[1][2]
        post_time == w.postrun_weat[1][1]
        lw1 == IF has_pre THEN DictSet(w.local_weat, pre_time, pre_code)
               ELSE w.local_weat
        lt1 == Sorted(IF has_pre THEN Append(DictKeys(w.local_weat), pre_time)
                      ELSE DictKeys(w.local_weat))
        lw2 == IF has_post THEN DictSet(lw1, post_time, post_code) ELSE lw1
        lt2 == IF has_post THEN Append(lt1, post_time) ELSE lt1
        rt == Sorted(DictKeys(w.remote_weat))
    IN [local_weat |-> lw2,
        preliminary_code |-> IF has_pre THEN Some(pre_code) ELSE None,
        preliminary_time |-> IF has_pre THEN Some(pre_time) ELSE None,
        local_timestamps_filtered |-> filter_corrections(lt2, 600),
        remote_timestamps_filtered |-> filter_corrections(rt, 600)]

\* lines 243-287
MainClassify ==
    /\ pc = "main_start"
    /\ LET ok == start_secs # <<>> /\ stop_secs # <<>>
                 /\ Broadcastable(start_secs, stop_secs)
           rs == Min(Range(start_secs))
           re == Max(Range(stop_secs))
           w == extract_weather_data(weather_dict, rs, re)
           sel == select_observations(w)
       IN IF ~ok \/ w.err # "none"
          THEN /\ pc' = "aborted"
               /\ err' = IF ~ok THEN "ValueError" ELSE w.err
               /\ UNCHANGED <<mergeVars, run_start, run_end, local_weat,
                              remote_weat, preliminary_weat, postrun_weat,
                              local_timestamps_filtered, remote_timestamps_filtered,
                              local_weat_filtered, preliminary_code,
                              preliminary_time>>
          ELSE /\ run_start' = rs
               /\ run_end' = re
               /\ local_weat' = sel.local_weat
               /\ remote_weat' = w.remote_weat
               /\ preliminary_weat' = w.preliminary_weat
               /\ postrun_weat' = w.postrun_weat
               /\ preliminary_code' = sel.preliminary_code
               /\ preliminary_time' = sel.preliminary_time
               /\ local_timestamps_filtered' = sel.local_timestamps_filtered
               /\ remote_timestamps_filtered' = sel.remote_timestamps_filtered
               /\ local_weat_filtered' =
                      weat_of(sel.local_weat, sel.local_timestamps_filtered)
               /\ err' = "none"
               /\ IF detector = "brtax4"
                  THEN \* the call of insert_remote_timestamps, max_diff=3600 * 2
                       /\ pc' = "merge"
                       /\ local' = sel.local_timestamps_filtered
                       /\ remote' = sel.remote_timestamps_filtered
                       /\ max_diff' = 3600 * 2
                       /\ new_local' = sel.local_timestamps_filtered
                       /\ new_remote' = sel.remote_timestamps_filtered
                       /\ changes_made' = TRUE
                       /\ promotions' = <<>>
                       /\ passes' = 0
                  ELSE /\ pc' = "segment0"
                       /\ UNCHANGED mergeVars
    /\ UNCHANGED <<weather_dict, utils_weat, detector, n_data_parts, start_secs,
                   stop_secs, data_parts, part, written>>
    /\ UNCHANGED <<filterVars, grepVars>>

\* lines 294-303: the merged timestamps and their codes (brtax4)
night_weat(timestamps, lw, rw) ==
    LET known == SelectSeq(timestamps, LAMBDA t : DictHas(lw, t) \/ DictHas(rw, t))
    IN [k \in 1..Len(known) |->
           <<known[k], IF DictHas(lw, known[k]) THEN DictGet(lw, known[k])
                       ELSE DictGet(rw, known[k])>>]

MainNightWeat ==
    /\ pc = "merge_done"
    /\ detector = "brtax4"
    /\ LET nw == night_weat(new_local, local_weat, remote_weat)
       IN /\ local_timestamps_filtered' = DictKeys(nw)
          /\ local_weat_filtered' = DictValues(nw)
    /\ remote_timestamps_filtered' = new_remote
    /\ pc' = "segment0"
    /\ UNCHANGED <<err, detector, n_data_parts, start_secs, stop_secs,
                   preliminary_code, preliminary_time, data_parts, part, written>>
    /\ UNCHANGED <<filterVars, mergeVars, grepVars, classifyVars>>

\* "if preliminary_code and preliminary_time": a Clouds object is true, an
\* int is true unless it is 0
PreliminaryIsTrue(code, time) == code # None /\ time # None /\ time[1] # 0

\* lines 306-309
segment0(code, time) ==
    IF PreliminaryIsTrue(code, time)
    THEN DataPart(0, 0, 0, 0, 0, code, time, "local")
    ELSE DataPart(0, 0, 0, 0, 0, None, None, "none")

MainSegment0 ==
    /\ pc = "segment0"
    /\ data_parts' = [k \in {0} |-> segment0(preliminary_code, preliminary_time)]
    /\ part' = 1
    /\ pc' = "assign"
    /\ UNCHANGED <<err, detector, n_data_parts, start_secs, stop_secs,
                   local_timestamps_filtered, remote_timestamps_filtered,
                   local_weat_filtered, preliminary_code, preliminary_time,
                   written>>
    /\ UNCHANGED <<filterVars, mergeVars, grepVars, classifyVars>>

\* np.searchsorted(timestamps, mid) on an ascending list: the number of
\* entries before mid (mid given doubled)
searchsorted(timestamps, mid2) ==
    Cardinality({k \in 1..Len(timestamps) : 2 * timestamps[k] < mid2})

\* time_during with the window closed at the start and open at the stop
time_during_start_closed(part_start, part_end, timestamp_before, timestamp_after) ==
    IF part_start <= timestamp_before /\ timestamp_before < part_end
    THEN timestamp_before
    ELSE IF part_start <= timestamp_after /\ timestamp_after < part_end
    THEN timestamp_after
    ELSE -1

\* lines 328-333: weat_time_during, the observation during the part or -1
time_during(part_start, part_end, timestamp_before, timestamp_after) ==
    IF part_start < timestamp_before /\ timestamp_before <= part_end
    THEN timestamp_before
    ELSE IF part_start < timestamp_after /\ timestamp_after <= part_end
    THEN timestamp_after
    ELSE -1

\* the body of the loop of lines 313-350 for one part: [err, part]
assign_part(part_num, part_start, part_end, timestamps, weats) ==
    LET mid2 == part_start + part_end
        ind == searchsorted(timestamps, mid2)
        \* timestamps[ind - 1]: index -1 is the last entry
        bi == IF ind = 0 THEN Len(timestamps) ELSE ind
        timestamp_before == timestamps[bi]
        weight_before == Abs(mid2 - 2 * timestamp_before)
        weat_before == weats[bi]
        has_after == ind < Len(timestamps)
        timestamp_after == IF has_after THEN timestamps[ind + 1] ELSE -1
        weat_after == IF has_after THEN weats[ind + 1] ELSE weat_before
        weight_after == IF has_after THEN Abs(mid2 - 2 * timestamps[ind + 1])
                        ELSE weight_before
        weat_time_during ==
            time_during(part_start, part_end, timestamp_before, timestamp_after)
        weat_during == compare_clouds(weat_before, weat_after, weight_before,
                                      weight_after, "twavg")
    IN IF timestamps = <<>> THEN [err |-> "IndexError"]
       ELSE IF weat_during.err # "none" THEN [err |-> weat_during.err]
       ELSE [err |-> "none",
             part |-> DataPart(part_num, part_start, part_end, mid2 \div 2,
                               part_start + 20 * 60, weat_during.clouds,
                               Some(weat_time_during), "local")]

MainAssignPart ==
    /\ pc = "assign"
    /\ part <= n_zip(start_secs, stop_secs)
    /\ LET r == assign_part(part, start_secs[part], stop_secs[part],
                            local_timestamps_filtered, local_weat_filtered)
       IN IF r.err # "none"
          THEN /\ pc' = "aborted"
               /\ err' = r.err
               /\ UNCHANGED <<data_parts, part>>
          ELSE /\ data_parts' = [k \in (DOMAIN data_parts) \cup {part} |->
                                    IF k = part THEN r.part ELSE data_parts[k]]
               /\ part' = part + 1
               /\ UNCHANGED <<pc, err>>
    /\ UNCHANGED <<detector, n_data_parts, start_secs, stop_secs,
                   local_timestamps_filtered, remote_timestamps_filtered,
                   local_weat_filtered, preliminary_code, preliminary_time,
                   written>>
    /\ UNCHANGED <<filterVars, mergeVars, grepVars, classifyVars>>

\* the loop of lines 313-353 is over: the output loop starts at part 0
MainAssignDone ==
    /\ pc = "assign"
    /\ part > n_zip(start_secs, stop_secs)
    /\ pc' = "output"
    /\ part' = 0
    /\ UNCHANGED <<err, detector, n_data_parts, start_secs, stop_secs,
                   local_timestamps_filtered, remote_timestamps_filtered,
                   local_weat_filtered, preliminary_code, preliminary_time,
                   data_parts, written>>
    /\ UNCHANGED <<filterVars, mergeVars, grepVars, classifyVars>>

\* output_line with the part's own code in the place of the previous part's
output_line_own_as_previous(parts, i, declared) ==
    <<parts[i].start_time,
      to_string(parts[i].weat_code[1]),
      to_string(parts[i].weat_code[1]),
      IF i = declared THEN to_string(parts[i].weat_code[1])
      ELSE to_string(parts[i + 1].weat_code[1])>>

\* the line written for part i (lines 377-382)
output_line(parts, i, declared) ==
    <<parts[i].start_time,
      to_string(parts[i - 1].weat_code[1]),
      to_string(parts[i].weat_code[1]),
      IF i = declared THEN to_string(parts[i].weat_code[1])
      ELSE to_string(parts[i + 1].weat_code[1])>>

\* whether data_parts[i + 1] is looked up, and missing, for part i
next_part_missing(parts, i, declared) == i # declared /\ (i + 1) \notin DOMAIN parts

\* one iteration of "for i, dp in data_parts.items()" (lines 368-382)
MainOutputPart ==
    /\ pc = "output"
    /\ part \in DOMAIN data_parts
    /\ IF part = 0
       THEN IF data_parts[0].weat_code # None
            THEN /\ part' = part + 1
                 /\ UNCHANGED <<pc, err, data_parts, written>>
            ELSE IF 1 \in DOMAIN data_parts
            THEN /\ data_parts' = [data_parts EXCEPT
                                      ![0].weat_code = data_parts[1].weat_code]
                 /\ part' = part + 1
                 /\ UNCHANGED <<pc, err, written>>
            ELSE /\ pc' = "aborted"
                 /\ err' = "KeyError"
                 /\ UNCHANGED <<data_parts, part, written>>
       ELSE IF next_part_missing(data_parts, part, n_data_parts)
            THEN /\ pc' = "aborted"
                 /\ err' = "KeyError"
                 /\ UNCHANGED <<data_parts, part, written>>
            ELSE /\ written' = Append(written,
                                      [part |-> part,
                                       line |-> output_line(data_parts, part,
                                                            n_data_parts)])
                 /\ part' = part + 1
                 /\ UNCHANGED <<pc, err, data_parts>>
    /\ UNCHANGED <<detector, n_data_parts, start_secs, stop_secs,
                   local_timestamps_filtered, remote_timestamps_filtered,
                   local_weat_filtered, preliminary_code, preliminary_time>>
    /\ UNCHANGED <<filterVars, mergeVars, grepVars, classifyVars>>

\* data_parts.items() is exhausted: the run completes
MainOutputDone ==
    /\ pc = "output"
    /\ part \notin DOMAIN data_parts
    /\ pc' = "done"
    /\ UNCHANGED <<err, filterVars, mergeVars, grepVars, classifyVars, mainVars>>

-----------------------------------------------------------------------------
(* utils.filter_corrections, called on a list and then on its own result *)

FilterOnce ==
    /\ pc = "filter"
    /\ filtered_once' = filter_corrections(weather_times, time_window)
    /\ pc' = "filter_again"
    /\ UNCHANGED <<err, weather_times, time_window, filtered_twice>>
    /\ UNCHANGED <<mergeVars, grepVars, classifyVars, mainVars>>

FilterTwice ==
    /\ pc = "filter_again"
    /\ filtered_twice' = filter_corrections(filtered_once, time_window)
    /\ pc' = "filter_done"
    /\ UNCHANGED <<err, weather_times, time_window, filtered_once>>
    /\ UNCHANGED <<mergeVars, grepVars, classifyVars, mainVars>>

-----------------------------------------------------------------------------
(* extract_weather_data called on its own: main.py's, or the variant of utils.py *)

ClassifyMain ==
    /\ pc = "classify"
    /\ LET w == extract_weather_data(weather_dict, run_start, run_end)
       IN /\ err' = w.err
          /\ pc' = IF w.err = "none" THEN "classified_main" ELSE "aborted"
          /\ local_weat' = w.local_weat
          /\ remote_weat' = w.remote_weat
          /\ preliminary_weat' = w.preliminary_weat
          /\ postrun_weat' = w.postrun_weat
    /\ UNCHANGED <<weather_dict, run_start, run_end, utils_weat>>
    /\ UNCHANGED <<filterVars, mergeVars, grepVars, mainVars>>

ClassifyUtils ==
    /\ pc = "classify"
    /\ LET w == utils_extract_weather_data(weather_dict, run_start, run_end)
       IN /\ err' = w.err
          /\ pc' = IF w.err = "none" THEN "classified_utils" ELSE "aborted"
          /\ utils_weat' = w
    /\ UNCHANGED <<weather_dict, run_start, run_end, local_weat, remote_weat,
                   preliminary_weat, postrun_weat>>
    /\ UNCHANGED <<filterVars, mergeVars, grepVars, mainVars>>

-----------------------------------------------------------------------------
(* The inputs *)

\* the longest list given to filter_corrections
MaxLen == 3

\* the longest local or remote list given to insert_remote_timestamps
MaxMerge == 3

\* the most events of a log after its parts declaration
MaxEvents == 3

\* the most data parts of a run
MaxParts == 2

\* the most weather entries of a run
MaxWeather == 2

FilterTimes == {0, 150, 300, 500, 1200}

Windows == {0, 200, 600}

MergeTimes == {0, 3000, 6000, 9000, 12000}

MaxDiffs == {0, 3600, 7200}

\* raw weather strings: two local codes, a remote code, and text without a code
LocalA == <<"1", "2", "0", "0", "1", "0", "0">>

LocalB == <<"4", "3", "1", "1", "0", "1", "1">>

RemoteC == <<"[", "M", "D", "]", " ", "2", "2", "0", "0", "0", "0", "0">>

NoCode == <<"c", "l", "e", "a", "r">>

RawCodes == {LocalA, LocalB, RemoteC, NoCode}

\* weather times of day: before, inside and after the run of Segments, and
\* two of the evening before (MIN_SEC itself and one after it)
WeatherTimes == {0, 500, 1500, 2000, 2500, 5000, 61200, 82800}

\* weather dicts in the order of the log, which is the order of time
WeatherDicts ==
    {d \in SeqsUpTo(WeatherTimes \X RawCodes, MaxWeather) :
        \A k \in 1..(Len(d) - 1) :
            shift_timestamp(d[k][1]) < shift_timestamp(d[k + 1][1])}

\* the parts of a run of n parts: 1000 s each, one after the other
SegmentStarts(n) == [k \in 1..n |-> 1000 * k]

SegmentStops(n) == [k \in 1..n |-> 1000 * k + 1000]

\* the time of day of the k-th event of a log, and the length of a part
\* whose clock has a stop
EventTime(k) == 3600 + 1800 * k

ClockLength == 15 * 60

LogEvent(kind, k) ==
    CASE kind = "clock_stop" ->
            [kind |-> "clock", time |-> EventTime(k),
             stop |-> Some(EventTime(k) + ClockLength)]
      [] kind = "clock_nostop" ->
            [kind |-> "clock", time |-> EventTime(k), stop |-> None]
      [] kind = "weather" ->
            [kind |-> "weather", time |-> EventTime(k), raw |-> LocalA]
      [] OTHER -> [kind |-> kind, time |-> EventTime(k)]

LogKinds == {"clock_stop", "clock_nostop", "empty", "emergency", "sky",
             "auto_restart", "auto_stop", "weather"}

\* a log: the declaration of the number of parts, then the events
Logs ==
    {<<[kind |-> "parts", time |-> EventTime(0), n |-> n]>>
        \o [k \in 1..Len(kinds) |-> LogEvent(kinds[k], k)] :
        n \in 0..MaxParts, kinds \in SeqsUpTo(LogKinds, MaxEvents)}

FilterIdle ==
    /\ weather_times = <<>>
    /\ time_window = 0
    /\ filtered_once = <<>>
    /\ filtered_twice = <<>>

MergeIdle ==
    /\ local = <<>>
    /\ remote = <<>>
    /\ max_diff = 0
    /\ new_local = <<>>
    /\ new_remote = <<>>
    /\ changes_made = FALSE
    /\ promotions = <<>>
    /\ passes = 0

GrepIdle ==
    /\ log = <<>>
    /\ pos = 1
    /\ n_parts = 0
    /\ start_time_list = <<>>
    /\ stop_time_list = <<>>
    /\ missing_clock_stops = <<>>
    /\ emergency_stop_list = <<>>
    /\ other_alarms = <<>>
    /\ auto_stop_time = None
    /\ weat_code_dict = <<>>
    /\ grep_result = [err |-> "none"]

ClassifyIdle ==
    /\ local_weat = <<>>
    /\ remote_weat = <<>>
    /\ preliminary_weat = <<>>
    /\ postrun_weat = <<>>
    /\ utils_weat = [err |-> "none"]

MainIdle ==
    /\ detector = "none"
    /\ n_data_parts = 0
    /\ start_secs = <<>>
    /\ stop_secs = <<>>
    /\ local_timestamps_filtered = <<>>
    /\ remote_timestamps_filtered = <<>>
    /\ local_weat_filtered = <<>>
    /\ preliminary_code = None
    /\ preliminary_time = None
    /\ data_parts = <<>>
    /\ part = 0
    /\ written = <<>>

-----------------------------------------------------------------------------
(* The specifications *)

\* filter_corrections on an ascending list
FilterInit ==
    /\ pc = "filter"
    /\ err = "none"
    /\ weather_times \in {s \in SeqsUpTo(FilterTimes, MaxLen) : IsAscending(s)}
    /\ time_window \in Windows
    /\ filtered_once = <<>>
    /\ filtered_twice = <<>>
    /\ MergeIdle /\ GrepIdle /\ ClassifyIdle /\ MainIdle
    /\ weather_dict = <<>> /\ run_start = 0 /\ run_end = 0

FilterNext == FilterOnce \/ FilterTwice

FilterSpec == FilterInit /\ [][FilterNext]_vars

\* insert_remote_timestamps on ascending lists without duplicates
MergeInit ==
    /\ pc = "merge"
    /\ err = "none"
    /\ local \in {s \in SeqsUpTo(MergeTimes, MaxMerge) : IsStrictlyAscending(s)}
    /\ remote \in {s \in SeqsUpTo(MergeTimes, MaxMerge) : IsStrictlyAscending(s)}
    /\ max_diff \in MaxDiffs
    /\ new_local = local
    /\ new_remote = remote
    /\ changes_made = TRUE
    /\ promotions = <<>>
    /\ passes = 0
    /\ FilterIdle /\ GrepIdle /\ ClassifyIdle /\ MainIdle
    /\ weather_dict = <<>> /\ run_start = 0 /\ run_end = 0

MergeNext == MergePass \/ MergeReturn

MergeSpec == MergeInit /\ [][MergeNext]_vars

\* the interpreter runs the loop on: a pass that can be taken is taken
MergeFairSpec == MergeSpec /\ WF_vars(MergeNext)

\* grep_run_log on a log
GrepInit ==
    /\ pc = "grep_iter"
    /\ err = "none"
    /\ log \in Logs
    /\ pos = 1
    /\ n_parts = 0
    /\ start_time_list = <<>>
    /\ stop_time_list = <<>>
    /\ missing_clock_stops = <<>>
    /\ emergency_stop_list = <<>>
    /\ other_alarms = <<>>
    /\ auto_stop_time = None
    /\ weat_code_dict = <<>>
    /\ grep_result = [err |-> "none"]
    /\ FilterIdle /\ MergeIdle /\ ClassifyIdle /\ MainIdle
    /\ weather_dict = <<>> /\ run_start = 0 /\ run_end = 0

GrepNext == GrepEvent \/ GrepNoParts \/ GrepInsertMissing \/ GrepFinish

GrepSpec == GrepInit /\ [][GrepNext]_vars

\* extract_weather_data on a weather dict and a run window
ClassifyInit ==
    /\ pc = "classify"
    /\ err = "none"
    /\ weather_dict \in WeatherDicts
    /\ \E n \in 1..MaxParts :
          /\ run_start = Min(Range(SegmentStarts(n)))
          /\ run_end = Max(Range(SegmentStops(n)))
    /\ ClassifyIdle
    /\ FilterIdle /\ MergeIdle /\ GrepIdle /\ MainIdle

ClassifyNext == ClassifyMain \/ ClassifyUtils

ClassifySpec == ClassifyInit /\ [][ClassifyNext]_vars

\* the run, from what grep_run_log returned
Init ==
    /\ pc = "main_start"
    /\ err = "none"
    /\ detector \in {"brtax4", "mdtax4"}
    /\ n_data_parts \in 1..(MaxParts + 1)
    /\ \E n \in 1..MaxParts :
          /\ start_secs = SegmentStarts(n)
          /\ stop_secs = SegmentStops(n)
    /\ weather_dict \in WeatherDicts
    /\ run_start = 0
    /\ run_end = 0
    /\ local_timestamps_filtered = <<>>
    /\ remote_timestamps_filtered = <<>>
    /\ local_weat_filtered = <<>>
    /\ preliminary_code = None
    /\ preliminary_time = None
    /\ data_parts = <<>>
    /\ part = 0
    /\ written = <<>>
    /\ ClassifyIdle
    /\ FilterIdle /\ MergeIdle /\ GrepIdle

Next ==
    \/ MainClassify
    \/ MergePass
    \/ MergeReturn
    \/ MainNightWeat
    \/ MainSegment0
    \/ MainAssignPart
    \/ MainAssignDone
    \/ MainOutputPart
    \/ MainOutputDone

Spec == Init /\ [][Next]_vars

-----------------------------------------------------------------------------
(* The claims *)

\* the code of part j as the output loop reads it
CodeOf(j) == to_string(data_parts[j].weat_code[1])

\* C1: a run that completes has written exactly one record for each part
\* i in 1..n, n the number of parts built from the start and stop lists, in
\* order: the part's start, the code of part i-1, the code of part i and the
\* code of part i+1, the last part's own code in the place of the next one
C1_OneRecordPerPart ==
    pc = "done" =>
        LET n == n_zip(start_secs, stop_secs)
        IN /\ Len(written) = n
           /\ \A i \in 1..n :
                 /\ written[i].part = i
                 /\ written[i].line =
                       <<start_secs[i], CodeOf(i - 1), CodeOf(i),
                         IF i = n THEN CodeOf(i) ELSE CodeOf(i + 1)>>

\* a completed run of two parts whose codes differ
C1_Witness ==
    /\ pc = "done"
    /\ Len(written) = 2
    /\ written[1].line[3] # written[1].line[4]
    /\ written[1].line[2] # written[1].line[3]

\* C2: a run that aborts has written no record
C2_NoPartialOutput == pc = "aborted" => written = <<>>

\* C3: with no emergency stop, no other alarm and no auto-stop in the log,
\* every clock without a stop gets the stop start + 1200 s, and the
\* resolution raises no error
C3_MissingStopFallback ==
    (/\ pc \in {"grep_finish", "grep_done", "aborted"}
     /\ n_parts # 0
     /\ missing_clock_stops # <<>>
     /\ emergency_stop_list = <<>>
     /\ other_alarms = <<>>
     /\ auto_stop_time = None)
    => /\ err # "ValueError"
       /\ \A k \in 1..Len(missing_clock_stops) :
             LET m == missing_clock_stops[k] + 1
             IN /\ m <= Len(stop_time_list)
                /\ stop_time_list[m] = start_time_list[m] + 1200

KeySet(d) == Range(DictKeys(d))

PairwiseDisjoint(w) ==
    /\ KeySet(w.local_weat) \cap KeySet(w.remote_weat) = {}
    /\ KeySet(w.local_weat) \cap KeySet(w.preliminary_weat) = {}
    /\ KeySet(w.local_weat) \cap KeySet(w.postrun_weat) = {}
    /\ KeySet(w.remote_weat) \cap KeySet(w.preliminary_weat) = {}
    /\ KeySet(w.remote_weat) \cap KeySet(w.postrun_weat) = {}
    /\ KeySet(w.preliminary_weat) \cap KeySet(w.postrun_weat) = {}

\* C4: the four maps extract_weather_data returns are pairwise disjoint, in
\* main.py and in the variant of utils.py
C4_CategoriesDisjoint ==
    /\ pc = "classified_main" =>
          PairwiseDisjoint([local_weat |-> local_weat, remote_weat |-> remote_weat,
                            preliminary_weat |-> preliminary_weat,
                            postrun_weat |-> postrun_weat])
    /\ pc = "classified_utils" => PairwiseDisjoint(utils_weat)

\* C5: main.py's extract_weather_data raises no error on an entry without
\* seven digits in a row, wherever its time is, and the entry is in none of
\* the four maps
C5_NoCodeEntryDropped ==
    /\ err # "IndexError"
    /\ pc = "classified_main" =>
          \A k \in 1..Len(weather_dict) :
              local_match(weather_dict[k][2]) = None =>
                  shift_timestamp(weather_dict[k][1]) \notin
                      (KeySet(local_weat) \cup KeySet(remote_weat)
                       \cup KeySet(preliminary_weat) \cup KeySet(postrun_weat))

\* the greedy reference: the first entry is kept, a later one if and only if
\* it is at least the window after the entry kept last
RECURSIVE greedy_loop(_, _, _, _)
greedy_loop(times, window, k, kept) ==
    IF k > Len(times) THEN kept
    ELSE greedy_loop(times, window, k + 1,
                     IF kept = <<>> \/ times[k] - kept[Len(kept)] >= window
                     THEN Append(kept, times[k]) ELSE kept)

\* C6: filter_corrections on an ascending list returns the greedy reference
C6_GreedyFilter ==
    pc \in {"filter_again", "filter_done"} =>
        filtered_once = greedy_loop(weather_times, time_window, 1, <<>>)

\* C7: filter_corrections of the result of filter_corrections, with the same
\* window, is that result
C7_FilterIdempotent == pc = "filter_done" => filtered_twice = filtered_once

\* a list of which the filter drops an entry and keeps several
C7_Witness ==
    /\ pc = "filter_done"
    /\ Len(filtered_once) >= 2
    /\ Len(filtered_once) < Len(weather_times)

\* C8: insert_remote_timestamps returns, and until then no remote timestamp
\* is promoted twice: the promotions are distinct remote timestamps, at most
\* len(remote) of them, in at most len(remote) + 1 passes, none of which
\* raises
C8_MergeTerminates ==
    /\ [](/\ err = "none"
          /\ Len(promotions) <= Len(remote)
          /\ Range(promotions) \subseteq Range(remote)
          /\ Cardinality(Range(promotions)) = Len(promotions)
          /\ passes <= Len(remote) + 1)
    /\ <>(pc = "merge_done")

\* a merge that promotes in more than one pass
C8_Witness ==
    /\ pc = "merge_done"
    /\ Len(promotions) >= 2
    /\ passes >= 3

\* whether the loop of lines 313-353 has run for part i, to its end or to an
\* exception
Assigned(i) ==
    \/ pc \in {"output", "done"}
    \/ pc = "assign" /\ part > i
    \/ pc = "aborted" /\ err = "KeyError"
    \/ pc = "aborted" /\ err \in {"ValueError", "IndexError"}
          /\ data_parts # <<>> /\ part = i

\* C9: a part whose midpoint is the time of an accepted observation gets
\* that observation's code, whatever the other observations are
C9_MidpointObservation ==
    \A i \in 1..n_zip(start_secs, stop_secs) :
        \A k \in 1..Len(local_timestamps_filtered) :
            (Assigned(i) /\ 2 * local_timestamps_filtered[k] = start_secs[i] + stop_secs[i])
            => /\ i \in DOMAIN data_parts
               /\ data_parts[i].weat_code = Some(local_weat_filtered[k])

\* C10: when records are written, part 0 has the code of the preliminary
\* observation if there is one, whatever its time, and else the code of
\* part 1
C10_Segment0Code ==
    written # <<>> =>
        IF preliminary_weat # <<>>
        THEN data_parts[0].weat_code =
                 Some(preliminary_weat[Len(preliminary_weat)][2])
        ELSE data_parts[0].weat_code = data_parts[1].weat_code

\* the accepted observations during part i: start < t <= stop
DuringPart(i) ==
    {t \in Range(local_timestamps_filtered) : start_secs[i] < t /\ t <= stop_secs[i]}

\* C11: the marker of a part with start < stop is -1 if and only if no
\* accepted observation is in (start, stop], and is otherwise one of those
\* in it; so an observation at the stop of a part is never the marker of
\* the next part that starts there
C11_DuringMarker ==
    \A i \in (DOMAIN data_parts) \ {0} :
        start_secs[i] < stop_secs[i] =>
            LET marker == data_parts[i].weat_time[1]
            IN /\ (marker = -1) <=> (DuringPart(i) = {})
               /\ marker # -1 => marker \in DuringPart(i)
               /\ (i > 1 /\ start_secs[i] = stop_secs[i - 1])
                      => marker # stop_secs[i - 1]

\* two parts, an observation at the stop of the first, where the second
\* starts: it is the marker of the first, and the second has none
C11_Witness ==
    /\ 2 \in DOMAIN data_parts
    /\ start_secs[2] = stop_secs[1]
    /\ stop_secs[1] \in Range(local_timestamps_filtered)
    /\ data_parts[1].weat_time = Some(stop_secs[1])
    /\ data_parts[2].weat_time = Some(-1)

\* the <<start, stop>> pairs of the clock events, in seconds, as
\* grep_run_log holds them before the stop filter and the two sorts
ClockPairs ==
    {<<convert_to_seconds(start_time_list[k]), convert_to_seconds(stop_time_list[k])>> :
        k \in 1..Len(start_time_list)}

\* C12: the start and stop lists grep_run_log returns have one length, and
\* the i-th start and the i-th stop come from one clock event
C12_StartStopPaired ==
    pc = "grep_done" =>
        /\ Len(grep_result.start_secs) = Len(grep_result.stop_secs)
        /\ \A k \in 1..Len(grep_result.start_secs) :
              k <= Len(grep_result.stop_secs) =>
                  <<grep_result.start_secs[k], grep_result.stop_secs[k]>> \in ClockPairs

\* C13: a part whose midpoint has insertion index 0 in the accepted
\* observations, in a run without a preliminary entry, is not assigned: the
\* run fails there, and no entry later than the midpoint is its 'before'
\* observation
C13_NoPrecedingObservation ==
    \A i \in 1..n_zip(start_secs, stop_secs) :
        (/\ Assigned(i)
         /\ preliminary_weat = <<>>
         /\ searchsorted(local_timestamps_filtered, start_secs[i] + stop_secs[i]) = 0)
        => /\ pc = "aborted"
           /\ i \notin DOMAIN data_parts

\* the keys of the four maps of main.py's extract_weather_data
ClassifiedKeys ==
    KeySet(local_weat) \cup KeySet(remote_weat)
    \cup KeySet(preliminary_weat) \cup KeySet(postrun_weat)

\* C14: before the classification by the run window a timestamp t with
\* 61200 <= t < 86400 becomes t - 86400, and any other is left as it is: an
\* entry with a code is filed under t - 86400 in the first case (61200
\* included) and under t in the second
C14_ShiftRange ==
    pc = "classified_main" =>
        \A k \in 1..Len(weather_dict) :
            LET t == weather_dict[k][1]
            IN local_match(weather_dict[k][2]) # None =>
                  IF 61200 <= t /\ t < 86400
                  THEN (t - 86400) \in ClassifiedKeys /\ t \notin ClassifiedKeys
                  ELSE t \in ClassifiedKeys

\* a list without a repeated element
NoDuplicates(s) == \A j, k \in 1..Len(s) : s[j] = s[k] => j = k

\* C15: insert_remote_timestamps conserves the observations: for disjoint,
\* duplicate-free, ascending local and remote, before the loop, after every
\* pass and at the return, no pass has failed, new_local and new_remote are
\* disjoint and without duplicates, their union is the union of local and
\* remote, and both are ascending
C15_MergeConserves ==
    (/\ Range(local) \cap Range(remote) = {}
     /\ IsStrictlyAscending(local)
     /\ IsStrictlyAscending(remote))
    => /\ err = "none"
       /\ Range(new_local) \cap Range(new_remote) = {}
       /\ NoDuplicates(new_local)
       /\ NoDuplicates(new_remote)
       /\ Range(new_local) \cup Range(new_remote) = Range(local) \cup Range(remote)
       /\ IsAscending(new_local)
       /\ IsAscending(new_remote)
       /\ Range(promotions) = Range(new_local) \ Range(local)
       /\ Range(promotions) = Range(remote) \ Range(new_remote)

\* promotions of two passes have been returned, and one remote timestamp stays
C15_Witness ==
    /\ pc = "merge_done"
    /\ Range(local) \cap Range(remote) = {}
    /\ Len(promotions) >= 2
    /\ passes >= 3
    /\ new_remote # <<>>
    /\ new_local # local

=============================================================================
